---- MODULE Spec2Model ----
(***************************************************************************)
(* Sage: the persistent semantic index of src/vector_store.py              *)
(* (class VectorStore), with the chunk metadata of                         *)
(* src/document_processor.py (DocumentProcessor.chunk_text).               *)
(*                                                                         *)
(* The in-memory store is the triple index / metadata / documents; the     *)
(* persisted snapshot is the three files <collection>.index,               *)
(* <collection>_metadata.pkl and <collection>_documents.pkl.               *)
(* Metadata dicts are Python objects: the store keeps references to the    *)
(* dicts its caller passed, so they live in a heap and the metadata list   *)
(* holds references into it.                                               *)
(***************************************************************************)
EXTENDS Integers, Sequences, FiniteSets, TLC

(***************************************************************************)
(* Bounds of the model                                                     *)
(***************************************************************************)
MaxChunks == 3      \* largest catalog the model builds
MaxBatch  == 2      \* longest chunk list passed to one add_documents call
MaxUuid   == 3      \* uuid4 values drawn in one behaviour
MaxTopK   == 2      \* largest top_k passed to search
MaxFaults == 1      \* errors raised by the libraries plus kills of the process

(***************************************************************************)
(* Inputs                                                                  *)
(***************************************************************************)
\* Filenames; "" is the filename get_stats discards.
Files == {"", "A", "B"}

\* Chunk texts (also used as query strings).
Texts == {"t1", "t2"}

\* The filenames and texts of the calls that are followed step by step.
StepFiles == {"A", "B"}
StepTexts == {"t1"}

\* Fixed-point unit: a float 1.0 is represented by Unit.
Unit == 1000

(***************************************************************************)
(* Sequence helpers                                                        *)
(***************************************************************************)
Range(s) == {s[i] : i \in DOMAIN s}

SeqsUpTo(S, n) == UNION {[1..k -> S] : k \in 0..n}

\* [s[i] for i in idxs], idxs an ascending sequence of positions of s.
Pick(s, idxs) == [k \in 1..Len(idxs) |-> s[idxs[k]]]

\* The positions 1..n that satisfy keep, ascending (a list comprehension
\* over range(n) with a filter).
RECURSIVE Positions(_, _)
Positions(n, keep) ==
    IF n = 0 THEN <<>>
    ELSE IF n \in keep THEN Append(Positions(n - 1, keep), n)
         ELSE Positions(n - 1, keep)

(***************************************************************************)
(* Embedding: SentenceTransformer.encode and faiss.normalize_L2            *)
(***************************************************************************)
\* The raw (unnormalized) embedding of a text; deterministic for the model.
Encode(text) ==
    CASE text = "t1" -> <<6, 8>>
      [] text = "t2" -> <<0, 5>>
      [] OTHER       -> <<12, 5>>

Dot(u, v) == u[1] * v[1] + u[2] * v[2]

\* Integer square root.
ISqrt(n) == CHOOSE r \in 0..n : r * r <= n /\ (r + 1) * (r + 1) > n

\* faiss.normalize_L2: divides by the L2 norm; a zero vector is left as is.
NormalizeL2(v) ==
    LET norm == ISqrt(Dot(v, v))
    IN  IF norm = 0 THEN v
        ELSE <<(v[1] * Unit) \div norm, (v[2] * Unit) \div norm>>

\* Mutant: the embeddings are added without normalize_L2.
EncodeBatchUnnormalized(texts) == [i \in 1..Len(texts) |-> Encode(texts[i])]

\* embedding_model.encode(texts) followed by faiss.normalize_L2(embeddings).
EncodeBatch(texts) == [i \in 1..Len(texts) |-> NormalizeL2(Encode(texts[i]))]

(***************************************************************************)
(* State                                                                   *)
(***************************************************************************)
VARIABLES
    index,        \* self.index: the vectors of the IndexFlatIP, by position
    metadata,     \* self.metadata: list of references to metadata dicts
    documents,    \* self.documents: list of chunk texts
    heap,         \* the live metadata dicts, by reference
    held,         \* the chunk list the caller built last and still holds
    nextUuid,     \* number of uuid4 values drawn so far, plus one
    indexFile,    \* <collection>.index
    metadataFile, \* <collection>_metadata.pkl
    documentsFile,\* <collection>_documents.pkl
    pc,           \* per session: where its running call stands, or "idle"
    frame,        \* per session: the local variables of its running call
    faults,       \* number of raised errors and kills so far
    last          \* history: the call that returned last, its result and the
                  \* number of calls of embedding_model.encode it made

vars == <<index, metadata, documents, heap, held, nextUuid,
          indexFile, metadataFile, documentsFile, pc, frame, faults, last>>

\* The variables of a call in progress.
steps == <<pc, frame, faults>>

memory == <<index, metadata, documents, heap>>
disk   == <<indexFile, metadataFile, documentsFile>>

\* The sessions of the process; each runs its calls in a thread of its own
\* on the one cached store.
Sessions == {1, 2}

\* The store by value: vectors, metadata dicts and texts, in order.
View(idx, md, docs, h) ==
    [index |-> idx, metadata |-> [i \in 1..Len(md) |-> h[md[i]]], documents |-> docs]

NoFrame == [op |-> "none"]

(***************************************************************************)
(* Metadata dicts and the heap                                             *)
(***************************************************************************)
\* hashlib.md5(chunk.encode()).hexdigest()
Md5(text) ==
    CASE text = "t1" -> "83f1"
      [] text = "t2" -> "6b5d"
      [] OTHER       -> "d41d"

\* The metadata dict of one chunk; id = 0 stands for "no 'id' key yet".
NewDict(filename, i, text) ==
    [filename |-> filename, chunk_id |-> i, chunk_hash |-> Md5(text), id |-> 0]

\* The elements of a finite set of numbers, ascending.
RECURSIVE Ascending(_)
Ascending(S) ==
    IF S = {} THEN <<>>
    ELSE LET m == CHOOSE x \in S : \A y \in S : x <= y
         IN  <<m>> \o Ascending(S \ {m})

\* n references that are not in use in heap h.
FreshRefs(h, n) ==
    SubSeq(Ascending((1..(Cardinality(DOMAIN h) + n)) \ DOMAIN h), 1, n)

\* The heap without the dicts nobody references any more.
Collect(h, live) == [r \in (DOMAIN h) \cap live |-> h[r]]

Refs(chunks) == {chunks[i].meta : i \in DOMAIN chunks}

(***************************************************************************)
(* DocumentProcessor.chunk_text: one (text, metadata) pair per chunk, the  *)
(* metadata a new dict with the filename and chunk_id = 0, 1, ...          *)
(***************************************************************************)
ChunkTextHeap(h, texts, filename) ==
    LET refs == FreshRefs(h, Len(texts))
    IN  [r \in DOMAIN h \cup Range(refs) |->
            IF r \in DOMAIN h THEN h[r]
            ELSE LET i == CHOOSE j \in 1..Len(texts) : refs[j] = r
                 IN  NewDict(filename, i - 1, texts[i])]

ChunkText(h, texts, filename) ==
    LET refs == FreshRefs(h, Len(texts))
    IN  [i \in 1..Len(texts) |-> [text |-> texts[i], meta |-> refs[i]]]

(***************************************************************************)
(* The snapshot files                                                      *)
(***************************************************************************)
Absent == [state |-> "absent", data |-> <<>>]
Torn   == [state |-> "torn", data |-> <<>>]
File(data) == [state |-> "ok", data |-> data]

\* faiss.write_index: the vectors of the index, in position order.
WriteIndex(idx) == File(idx)

\* pickle.dump(self.metadata): the dicts by value, in list order; a dict
\* that occurs again is written as a back-reference (pickle's memo) to its
\* first occurrence.
PickleMetadata(md, h) ==
    File([i \in 1..Len(md) |->
            [memo |-> CHOOSE j \in 1..i :
                        md[j] = md[i] /\ \A k \in 1..(j - 1) : md[k] # md[i],
             dict |-> h[md[i]]]])

\* pickle.dump(self.documents)
PickleDocuments(docs) == File(docs)

\* pickle.load of the metadata file: new dict objects, one per distinct
\* memo entry, numbered in order of first occurrence.
FirstOccurrences(data) == Positions(Len(data), {i \in 1..Len(data) : data[i].memo = i})

UnpickleRef(data, i) ==
    LET firsts == FirstOccurrences(data)
    IN  CHOOSE r \in 1..Len(firsts) : firsts[r] = data[i].memo

UnpickleMetadata(data) == [i \in 1..Len(data) |-> UnpickleRef(data, i)]

UnpickleHeap(data) ==
    LET firsts == FirstOccurrences(data)
    IN  [r \in 1..Len(firsts) |-> data[firsts[r]].dict]

(***************************************************************************)
(* VectorStore._load_or_create_index                                       *)
(***************************************************************************)
\* Whether the constructor returns: it raises when the index file exists
\* and one of the three files cannot be read.
LoadSucceeds(fi, fm, fd) ==
    fi.state = "absent" \/ (fi.state = "ok" /\ fm.state = "ok" /\ fd.state = "ok")

LoadIndex(fi) == IF fi.state = "absent" THEN <<>> ELSE fi.data
LoadMetadata(fi, fm) == IF fi.state = "absent" THEN <<>> ELSE UnpickleMetadata(fm.data)
\* Mutant: the documents file is loaded whenever it is there.
LoadDocumentsIfPresent(fi, fd) == IF fd.state = "ok" THEN fd.data ELSE <<>>

LoadDocuments(fi, fd) == IF fi.state = "absent" THEN <<>> ELSE fd.data
LoadHeap(fi, fm) == IF fi.state = "absent" THEN <<>> ELSE UnpickleHeap(fm.data)

(***************************************************************************)
(* VectorStore._save_index: the three files are rewritten in full.         *)
(***************************************************************************)
\* Mutant: the documents file is not rewritten.
SaveIndexWithoutDocuments(idx, md, docs, h) ==
    /\ indexFile' = WriteIndex(idx)
    /\ metadataFile' = PickleMetadata(md, h)
    /\ UNCHANGED documentsFile

SaveIndex(idx, md, docs, h) ==
    /\ indexFile' = WriteIndex(idx)
    /\ metadataFile' = PickleMetadata(md, h)
    /\ documentsFile' = PickleDocuments(docs)

(***************************************************************************)
(* VectorStore.add_documents                                               *)
(***************************************************************************)
TextsOf(chunks) == [i \in 1..Len(chunks) |-> chunks[i].text]
MetadatasOf(chunks) == [i \in 1..Len(chunks) |-> chunks[i].meta]

\* self.index.add(embeddings): the vectors go to the end, in input order.
IndexAdd(idx, embeddings) == idx \o embeddings

\* The loop of add_documents over the chunks from the i-th on:
\* metadata['id'] = str(uuid.uuid4()) writes into the caller's dict.
RECURSIVE AssignIds(_, _, _, _)
AssignIds(h, chunks, i, uuid) ==
    IF i > Len(chunks) THEN h
    ELSE AssignIds([h EXCEPT ![chunks[i].meta].id = uuid], chunks, i + 1, uuid + 1)

AppendMetadata(md, chunks) == md \o MetadatasOf(chunks)
AppendDocuments(docs, chunks) == docs \o TextsOf(chunks)

\* The bounds of the model: the catalog and the uuid counter stay small.
AddFits(chunks) ==
    /\ Len(metadata) + Len(chunks) <= MaxChunks
    /\ nextUuid + Len(chunks) - 1 <= MaxUuid

\* add_documents(chunks), run to completion; h is the heap with the dicts of
\* the chunks in it.
AddDocuments(chunks, h) ==
    LET idx  == IndexAdd(index, EncodeBatch(TextsOf(chunks)))
        h2   == AssignIds(h, chunks, 1, nextUuid)
        md   == AppendMetadata(metadata, chunks)
        docs == AppendDocuments(documents, chunks)
    IN  /\ AddFits(chunks)
        /\ index' = idx
        /\ metadata' = md
        /\ documents' = docs
        /\ heap' = Collect(h2, Range(md) \cup Refs(chunks))
        /\ held' = chunks
        /\ nextUuid' = nextUuid + Len(chunks)
        /\ SaveIndex(idx, md, docs, h2)
        /\ last' = [ok |-> TRUE, encodes |-> 1,
                    before |-> Len(documents), op |-> "add_documents",
                    arg |-> chunks, res |-> <<>>]
        /\ UNCHANGED steps

\* The caller chunks a document (chunk_text) and adds the chunks, as
\* app.py does.
AddNewDocuments(filename, texts) ==
    AddDocuments(ChunkText(heap, texts, filename), ChunkTextHeap(heap, texts, filename))

\* The caller passes the chunk list it still holds once more.
AddHeldDocuments ==
    /\ held # <<>>
    /\ AddDocuments(held, heap)

\* add_documents([]) where the embedding of an empty batch is rejected by
\* faiss.normalize_L2: the call raises before anything is changed.
AddNoDocumentsRaises ==
    /\ held' = <<>>
    /\ heap' = Collect(heap, Range(metadata))
    /\ last' = [ok |-> FALSE, encodes |-> 1,
                before |-> Len(documents), op |-> "add_documents",
                arg |-> <<>>, res |-> <<>>]
    /\ UNCHANGED <<index, metadata, documents, nextUuid, disk, steps>>

(***************************************************************************)
(* VectorStore.search                                                      *)
(***************************************************************************)
Min(a, b) == IF a <= b THEN a ELSE b

\* Inner product of two fixed-point vectors, as a fixed-point number.
Score(u, v) == Dot(u, v) \div Unit

\* IndexFlatIP.search(q, k): k distinct positions with the highest inner
\* products, by non-increasing score; the order among equal scores is the
\* library's.
IndexSearch(idx, q, k) ==
    {r \in [1..k -> 1..Len(idx)] :
        /\ \A a, b \in 1..k :
              a < b => r[a] # r[b] /\ Score(idx[r[a]], q) >= Score(idx[r[b]], q)
        /\ \A p \in 1..Len(idx) :
              (\A a \in 1..k : r[a] # p) =>
                  \A a \in 1..k : Score(idx[r[a]], q) >= Score(idx[p], q)}

\* The scores that come with the returned positions.
IndexScores(idx, q, r) == [i \in 1..Len(r) |-> Score(idx[r[i]], q)]

\* The result list built from the returned scores and positions.
FormatResults(scores, md, docs, r) ==
    [i \in 1..Len(r) |->
        [text |-> docs[r[i]],
         metadata |-> md[r[i]],
         distance |-> Unit - scores[i]]]

SearchResults(idx, md, docs, query, top_k) ==
    IF Len(idx) = 0 THEN {<<>>}
    ELSE LET q == NormalizeL2(Encode(query))
         IN  {FormatResults(IndexScores(idx, q, r), md, docs, r) :
                 r \in IndexSearch(idx, q, Min(top_k, Len(idx)))}

\* Mutant: the query is embedded before the size of the index is looked at.
SearchEncodesAlways(idx) == 1

\* The calls of embedding_model.encode that search makes: none on an empty
\* index (lines 75-76), one otherwise (line 79).
SearchEncodes(idx) == IF Len(idx) = 0 THEN 0 ELSE 1

Search(query, top_k) ==
    /\ \E results \in SearchResults(index, metadata, documents, query, top_k) :
          last' = [ok |-> TRUE, encodes |-> SearchEncodes(index),
                   before |-> Len(documents), op |-> "search",
                   arg |-> <<query, top_k>>, res |-> results]
    /\ UNCHANGED <<memory, held, nextUuid, disk, steps>>

(***************************************************************************)
(* VectorStore.file_exists                                                 *)
(***************************************************************************)
FileExistsIn(md, h, filename) == \E i \in 1..Len(md) : h[md[i]].filename = filename

FileExists(filename) ==
    /\ last' = [ok |-> TRUE, encodes |-> 0,
                before |-> Len(documents), op |-> "file_exists", arg |-> filename,
                res |-> FileExistsIn(metadata, heap, filename)]
    /\ UNCHANGED <<memory, held, nextUuid, disk, steps>>

(***************************************************************************)
(* VectorStore.delete_file                                                 *)
(***************************************************************************)
\* Mutant: only the first chunk of the file is found.
IndicesToDeleteFirstOnly(md, h, filename) ==
    LET all == Positions(Len(md), {i \in 1..Len(md) : h[md[i]].filename = filename})
    IN  IF all = <<>> THEN <<>> ELSE <<all[1]>>

IndicesToDelete(md, h, filename) ==
    Positions(Len(md), {i \in 1..Len(md) : h[md[i]].filename = filename})

\* Mutant: everything from the first deleted position on is dropped.
RemainingIndicesTruncated(md, h, filename) ==
    Positions(Len(md), {i \in 1..Len(md) :
        \A j \in Range(IndicesToDelete(md, h, filename)) : i < j})

RemainingIndices(md, h, filename) ==
    Positions(Len(md), {i \in 1..Len(md) :
        i \notin Range(IndicesToDelete(md, h, filename))})

\* Mutant: the new index is built from all the documents.
RebuiltIndexOfAll(docs, remaining) ==
    IF remaining # <<>> THEN IndexAdd(<<>>, EncodeBatch(docs)) ELSE <<>>

\* The index built from the re-embedded texts of the remaining chunks.
RebuiltIndex(docs, remaining) ==
    IF remaining # <<>> THEN IndexAdd(<<>>, EncodeBatch(Pick(docs, remaining)))
    ELSE <<>>

\* Mutant: the last remaining file's entries are kept when nothing remains.
RemainingMetadataKept(md, remaining) ==
    IF remaining # <<>> THEN Pick(md, remaining) ELSE md

RemainingMetadata(md, remaining) ==
    IF remaining # <<>> THEN Pick(md, remaining) ELSE <<>>

RemainingDocuments(docs, remaining) ==
    IF remaining # <<>> THEN Pick(docs, remaining) ELSE <<>>

\* Mutant: the remaining texts are embedded before the early return.
DeleteEncodesAlways(gone, remaining) == IF remaining # <<>> THEN 1 ELSE 0

\* The calls of embedding_model.encode that delete_file makes: one (line
\* 115) when the file has chunks and other chunks remain.
DeleteEncodes(gone, remaining) == IF gone # <<>> /\ remaining # <<>> THEN 1 ELSE 0

DeleteFile(filename) ==
    LET gone      == IndicesToDelete(metadata, heap, filename)
        remaining == RemainingIndices(metadata, heap, filename)
        idx       == RebuiltIndex(documents, remaining)
        md        == RemainingMetadata(metadata, remaining)
        docs      == RemainingDocuments(documents, remaining)
    IN  /\ IF gone = <<>>
           THEN UNCHANGED <<index, metadata, documents, heap, disk>>
           ELSE /\ index' = idx
                /\ metadata' = md
                /\ documents' = docs
                /\ heap' = Collect(heap, Range(md) \cup Refs(held))
                /\ SaveIndex(idx, md, docs, heap)
        /\ last' = [ok |-> TRUE, encodes |-> DeleteEncodes(gone, remaining),
                    before |-> Len(documents), op |-> "delete_file",
                    arg |-> filename, res |-> Len(gone)]
        /\ UNCHANGED <<held, nextUuid, steps>>

(***************************************************************************)
(* VectorStore.reset_database                                              *)
(***************************************************************************)
\* Mutant: the files are emptied, not removed.
ResetDatabaseTruncates ==
    /\ index' = <<>>
    /\ metadata' = <<>>
    /\ documents' = <<>>
    /\ heap' = Collect(heap, Refs(held))
    /\ indexFile' = WriteIndex(<<>>)
    /\ metadataFile' = PickleMetadata(<<>>, heap)
    /\ documentsFile' = PickleDocuments(<<>>)
    /\ last' = [ok |-> TRUE, encodes |-> 0,
                before |-> Len(documents), op |-> "reset_database",
                arg |-> <<>>, res |-> <<>>]
    /\ UNCHANGED <<held, nextUuid, steps>>

ResetDatabase ==
    /\ index' = <<>>
    /\ metadata' = <<>>
    /\ documents' = <<>>
    /\ heap' = Collect(heap, Refs(held))
    /\ indexFile' = Absent
    /\ metadataFile' = Absent
    /\ documentsFile' = Absent
    /\ last' = [ok |-> TRUE, encodes |-> 0,
                before |-> Len(documents), op |-> "reset_database",
                arg |-> <<>>, res |-> <<>>]
    /\ UNCHANGED <<held, nextUuid, steps>>

(***************************************************************************)
(* VectorStore.get_stats                                                   *)
(***************************************************************************)
\* Mutant: get_stats keeps the empty filename.
UniqueFilesWithEmpty(md, h) == {h[md[i]].filename : i \in 1..Len(md)}

UniqueFiles(md, h) == {h[md[i]].filename : i \in 1..Len(md)} \ {""}

Stats(md, docs, h) ==
    [total_chunks |-> Len(docs),
     unique_files |-> Cardinality(UniqueFiles(md, h)),
     files |-> UniqueFiles(md, h)]

\* Mutant: the entries of the empty filename are dropped from the metadata
\* list itself.
GetStatsDiscardsEntries ==
    /\ metadata' = Pick(metadata, Positions(Len(metadata),
                        {i \in 1..Len(metadata) : heap[metadata[i]].filename # ""}))
    /\ heap' = Collect(heap, Range(metadata') \cup Refs(held))
    /\ last' = [ok |-> TRUE, encodes |-> 0, before |-> Len(documents),
                op |-> "get_stats", arg |-> <<>>,
                res |-> Stats(metadata', documents, heap')]
    /\ UNCHANGED <<index, documents, held, nextUuid, disk, steps>>

GetStats ==
    /\ last' = [ok |-> TRUE, encodes |-> 0, before |-> Len(documents), op |-> "get_stats",
                arg |-> <<>>, res |-> Stats(metadata, documents, heap)]
    /\ UNCHANGED <<memory, held, nextUuid, disk, steps>>

(***************************************************************************)
(* A new process: VectorStore.__init__ on the same persist directory       *)
(* (initialize_components runs once per process).  The dicts of the old    *)
(* process are gone.                                                       *)
(***************************************************************************)
Restart ==
    /\ LoadSucceeds(indexFile, metadataFile, documentsFile)
    /\ index' = LoadIndex(indexFile)
    /\ metadata' = LoadMetadata(indexFile, metadataFile)
    /\ documents' = LoadDocuments(indexFile, documentsFile)
    /\ heap' = LoadHeap(indexFile, metadataFile)
    /\ held' = <<>>
    /\ last' = [ok |-> TRUE, encodes |-> 0,
                before |-> Len(documents), op |-> "init", arg |-> <<>>, res |-> <<>>]
    /\ UNCHANGED <<nextUuid, disk, steps>>

(***************************************************************************)
(* Sequential use of one store: every call runs to completion.             *)
(***************************************************************************)
Init ==
    /\ index = <<>>
    /\ metadata = <<>>
    /\ documents = <<>>
    /\ heap = <<>>
    /\ held = <<>>
    /\ nextUuid = 1
    /\ indexFile = Absent
    /\ metadataFile = Absent
    /\ documentsFile = Absent
    /\ pc = [s \in Sessions |-> "idle"]
    /\ frame = [s \in Sessions |-> NoFrame]
    /\ faults = 0
    /\ last = [ok |-> TRUE, encodes |-> 0,
               before |-> 0, op |-> "init", arg |-> <<>>, res |-> <<>>]

Next ==
    \/ AddNoDocumentsRaises
    \/ \E filename \in Files, texts \in SeqsUpTo(Texts, MaxBatch) :
          AddNewDocuments(filename, texts)
    \/ AddHeldDocuments
    \/ \E query \in Texts, top_k \in 1..MaxTopK : Search(query, top_k)
    \/ \E filename \in Files : FileExists(filename)
    \/ \E filename \in Files : DeleteFile(filename)
    \/ ResetDatabase
    \/ GetStats
    \/ Restart

Spec == Init /\ [][Next]_vars

(***************************************************************************)
(* The calls step by step.  A session runs one call at a time; between two *)
(* steps of a call the process may be killed, and another session's thread *)
(* may run.                                                                *)
(***************************************************************************)
Goto(s, label) == pc' = [pc EXCEPT ![s] = label]

\* Session s begins a call; pre, files and post are history: the store and
\* the files as the call found them, and the store it is about to persist.
Begin(s, label, locals) ==
    /\ pc[s] = "idle"
    /\ pc' = [pc EXCEPT ![s] = label]
    /\ frame' = [frame EXCEPT ![s] =
                    IF locals = NoFrame THEN NoFrame
                    ELSE [pre |-> View(index, metadata, documents, heap),
                          files |-> disk,
                          encodes |-> 0,
                          post |-> View(index, metadata, documents, heap)] @@ locals]

\* The call of session s returns result.
Return(s, result) ==
    /\ pc' = [pc EXCEPT ![s] = "idle"]
    /\ frame' = [frame EXCEPT ![s] = NoFrame]
    /\ last' = [ok |-> TRUE, encodes |-> frame[s].encodes,
                before |-> frame[s].before, op |-> frame[s].op,
                arg |-> frame[s].arg, res |-> result]

\* The call of session s raises, after encodes calls of the embedder.
Raised(s, encodes) ==
    /\ pc' = [pc EXCEPT ![s] = "idle"]
    /\ frame' = [frame EXCEPT ![s] = NoFrame]
    /\ last' = [ok |-> FALSE, encodes |-> encodes, before |-> frame[s].before,
                op |-> frame[s].op, arg |-> frame[s].arg, res |-> <<>>]

Raise(s) == Raised(s, frame[s].encodes)

\* The in-memory part of the mutating call of session s is done.
Mutated(s, label, idx, md, docs, h) ==
    /\ pc' = [pc EXCEPT ![s] = label]
    /\ frame' = [frame EXCEPT ![s].post = View(idx, md, docs, h)]

\* The dicts of the chunk lists that the calls in progress of the sessions
\* other than s hold.
ChunkRefs(s) ==
    UNION {Refs(frame[t].chunks) :
              t \in {u \in Sessions \ {s} : frame[u].op = "add_documents"}}

\* The chunks that the add_documents calls in progress have yet to append.
PendingChunks ==
    LET pending(t) == IF frame[t].op = "add_documents"
                      THEN Len(frame[t].chunks) - frame[t].done ELSE 0
    IN  pending(1) + pending(2)

\* add_documents(chunk_text(text, filename)) with at least one chunk: lines
\* 52-53.
CallAddDocuments(s, filename, texts) ==
    LET chunks == ChunkText(heap, texts, filename)
    IN  /\ Len(metadata) + PendingChunks + Len(chunks) <= MaxChunks
        /\ nextUuid + PendingChunks + Len(chunks) - 1 <= MaxUuid
        /\ Begin(s, "add_encode",
                 [op |-> "add_documents", arg |-> chunks, before |-> Len(documents),
                  chunks |-> chunks, done |-> 0, embeddings |-> <<>>,
                  result |-> <<>>])
        /\ heap' = ChunkTextHeap(heap, texts, filename)
        /\ UNCHANGED <<index, metadata, documents, held, nextUuid, disk, faults, last>>

\* Lines 56-59: the embeddings of the batch, normalized.
AddEncode(s) ==
    /\ pc[s] = "add_encode"
    /\ frame' = [frame EXCEPT ![s].embeddings = EncodeBatch(TextsOf(frame[s].chunks)),
                              ![s].encodes = 1]
    /\ Goto(s, "add_index")
    /\ UNCHANGED <<memory, held, nextUuid, disk, faults, last>>

\* Line 62: self.index.add.
AddIndex(s) ==
    /\ pc[s] = "add_index"
    /\ index' = IndexAdd(index, frame[s].embeddings)
    /\ Goto(s, "add_metadata")
    /\ UNCHANGED <<metadata, documents, heap, held, nextUuid, disk, frame, faults, last>>

\* Lines 66-67 for the next chunk: the id and self.metadata.append.
AddLoopMetadata(s) ==
    LET chunk == <<frame[s].chunks[frame[s].done + 1]>>
    IN  /\ pc[s] = "add_metadata"
        /\ heap' = AssignIds(heap, chunk, 1, nextUuid)
        /\ nextUuid' = nextUuid + 1
        /\ metadata' = AppendMetadata(metadata, chunk)
        /\ Goto(s, "add_document")
        /\ UNCHANGED <<index, documents, held, disk, frame, faults, last>>

\* Line 68 for the same chunk: self.documents.append.
AddLoopDocument(s) ==
    LET chunk == <<frame[s].chunks[frame[s].done + 1]>>
    IN  /\ pc[s] = "add_document"
        /\ documents' = AppendDocuments(documents, chunk)
        /\ IF frame[s].done + 1 = Len(frame[s].chunks)
           THEN /\ pc' = [pc EXCEPT ![s] = "save_index"]
                /\ frame' = [frame EXCEPT ![s].done = @ + 1,
                                          ![s].post = View(index, metadata, documents', heap)]
           ELSE /\ Goto(s, "add_metadata")
                /\ frame' = [frame EXCEPT ![s].done = @ + 1]
        /\ UNCHANGED <<index, metadata, heap, held, nextUuid, disk, faults, last>>

\* _save_index, line 44: faiss.write_index opens the index file ...
SaveOpenIndex(s) ==
    /\ pc[s] = "save_index"
    /\ indexFile' = Torn
    /\ Goto(s, "save_index_w")
    /\ UNCHANGED <<memory, held, nextUuid, metadataFile, documentsFile,
                   frame, faults, last>>

\* ... and writes the index into it.
SaveWriteIndex(s) ==
    /\ pc[s] = "save_index_w"
    /\ indexFile' = WriteIndex(index)
    /\ Goto(s, "save_metadata")
    /\ UNCHANGED <<memory, held, nextUuid, metadataFile, documentsFile,
                   frame, faults, last>>

\* Line 45: open(self.metadata_path, 'wb').
SaveOpenMetadata(s) ==
    /\ pc[s] = "save_metadata"
    /\ metadataFile' = Torn
    /\ Goto(s, "save_metadata_w")
    /\ UNCHANGED <<memory, held, nextUuid, indexFile, documentsFile,
                   frame, faults, last>>

\* Line 46: pickle.dump(self.metadata, f).
SaveWriteMetadata(s) ==
    /\ pc[s] = "save_metadata_w"
    /\ metadataFile' = PickleMetadata(metadata, heap)
    /\ Goto(s, "save_documents")
    /\ UNCHANGED <<memory, held, nextUuid, indexFile, documentsFile,
                   frame, faults, last>>

\* Line 47: open(self.documents_path, 'wb').
SaveOpenDocuments(s) ==
    /\ pc[s] = "save_documents"
    /\ documentsFile' = Torn
    /\ Goto(s, "save_documents_w")
    /\ UNCHANGED <<memory, held, nextUuid, indexFile, metadataFile,
                   frame, faults, last>>

\* Line 48: pickle.dump(self.documents, f); the call returns.
SaveWriteDocuments(s) ==
    /\ pc[s] = "save_documents_w"
    /\ documentsFile' = PickleDocuments(documents)
    /\ heap' = Collect(heap, Range(metadata) \cup ChunkRefs(s))
    /\ Return(s, frame[s].result)
    /\ UNCHANGED <<index, metadata, documents, held, nextUuid, indexFile,
                   metadataFile, faults>>

\* Mutant: the metadata list is filtered before the remaining texts are
\* embedded.
CallDeleteFileFiltersFirst(s, filename) ==
    LET gone      == IndicesToDelete(metadata, heap, filename)
        remaining == RemainingIndices(metadata, heap, filename)
    IN  /\ Begin(s, IF gone = <<>> THEN "idle"
                    ELSE IF remaining # <<>> THEN "delete_build" ELSE "delete_index",
                 IF gone = <<>> THEN NoFrame
                 ELSE [op |-> "delete_file", arg |-> filename,
                       before |-> Len(documents), remaining |-> remaining,
                       new_index |-> <<>>, result |-> Len(gone)])
        /\ last' = IF gone = <<>>
                   THEN [ok |-> TRUE, encodes |-> 0, before |-> Len(documents),
                         op |-> "delete_file", arg |-> filename, res |-> 0]
                   ELSE last
        /\ metadata' = IF gone = <<>> THEN metadata
                       ELSE RemainingMetadata(metadata, remaining)
        /\ UNCHANGED <<index, documents, heap, held, nextUuid, disk, faults>>

\* delete_file(filename), lines 104-110; it returns at once when the file
\* has no chunk.
CallDeleteFile(s, filename) ==
    LET gone      == IndicesToDelete(metadata, heap, filename)
        remaining == RemainingIndices(metadata, heap, filename)
    IN  /\ Begin(s, IF gone = <<>> THEN "idle"
                    ELSE IF remaining # <<>> THEN "delete_build" ELSE "delete_index",
                 IF gone = <<>> THEN NoFrame
                 ELSE [op |-> "delete_file", arg |-> filename,
                       before |-> Len(documents), remaining |-> remaining,
                       new_index |-> <<>>, result |-> Len(gone)])
        /\ last' = IF gone = <<>>
                   THEN [ok |-> TRUE, encodes |-> 0,
                         before |-> Len(documents), op |-> "delete_file",
                         arg |-> filename, res |-> 0]
                   ELSE last
        /\ UNCHANGED <<memory, held, nextUuid, disk, faults>>

\* Whether every position of the list is a position of a list of length n
\* (otherwise the list comprehension raises IndexError).
InRange(positions, n) == \A i \in Range(positions) : i <= n

\* Lines 113-120: the new index of the re-embedded remaining texts.
DeleteBuild(s) ==
    /\ pc[s] = "delete_build"
    /\ IF InRange(frame[s].remaining, Len(documents))
       THEN /\ frame' = [frame EXCEPT ![s].new_index =
                            RebuiltIndex(documents, frame[s].remaining),
                                      ![s].encodes = 1]
            /\ Goto(s, "delete_index")
            /\ UNCHANGED last
       ELSE Raise(s)
    /\ UNCHANGED <<memory, held, nextUuid, disk, faults>>

\* Line 123 (or 128): self.index = new_index.
DeleteIndex(s) ==
    /\ pc[s] = "delete_index"
    /\ index' = frame[s].new_index
    /\ Goto(s, "delete_metadata")
    /\ UNCHANGED <<metadata, documents, heap, held, nextUuid, disk, frame, faults, last>>

\* Line 124 (or 129): self.metadata = [self.metadata[i] for i in remaining_indices].
DeleteMetadata(s) ==
    /\ pc[s] = "delete_metadata"
    /\ IF InRange(frame[s].remaining, Len(metadata))
       THEN /\ metadata' = RemainingMetadata(metadata, frame[s].remaining)
            /\ heap' = Collect(heap, Range(metadata') \cup ChunkRefs(s))
            /\ Goto(s, "delete_documents")
            /\ UNCHANGED <<frame, last>>
       ELSE /\ Raise(s)
            /\ UNCHANGED <<metadata, heap>>
    /\ UNCHANGED <<index, documents, held, nextUuid, disk, faults>>

\* Line 125 (or 130): self.documents = [self.documents[i] for i in remaining_indices].
DeleteDocuments(s) ==
    /\ pc[s] = "delete_documents"
    /\ IF InRange(frame[s].remaining, Len(documents))
       THEN /\ documents' = RemainingDocuments(documents, frame[s].remaining)
            /\ Mutated(s, "save_index", index, metadata, documents', heap)
            /\ UNCHANGED last
       ELSE /\ Raise(s)
            /\ UNCHANGED documents
    /\ UNCHANGED <<index, metadata, heap, held, nextUuid, disk, faults>>

\* reset_database, line 137: self.index = faiss.IndexFlatIP(...).
CallResetDatabase(s) ==
    /\ Begin(s, "reset_metadata",
             [op |-> "reset_database", arg |-> <<>>, before |-> Len(documents)])
    /\ index' = <<>>
    /\ UNCHANGED <<metadata, documents, heap, held, nextUuid, disk, faults, last>>

\* Line 138: self.metadata = [].
ResetMetadata(s) ==
    /\ pc[s] = "reset_metadata"
    /\ metadata' = <<>>
    /\ heap' = Collect(heap, ChunkRefs(s))
    /\ Goto(s, "reset_documents")
    /\ UNCHANGED <<index, documents, held, nextUuid, disk, frame, faults, last>>

\* Line 139: self.documents = [].
ResetDocuments(s) ==
    /\ pc[s] = "reset_documents"
    /\ documents' = <<>>
    /\ Mutated(s, "remove_index", index, metadata, documents', heap)
    /\ UNCHANGED <<index, metadata, heap, held, nextUuid, disk, faults, last>>

\* Lines 142-144, the index file.
RemoveIndex(s) ==
    /\ pc[s] = "remove_index"
    /\ indexFile' = Absent
    /\ Goto(s, "remove_metadata")
    /\ UNCHANGED <<memory, held, nextUuid, metadataFile, documentsFile,
                   frame, faults, last>>

\* Lines 142-144, the metadata file.
RemoveMetadata(s) ==
    /\ pc[s] = "remove_metadata"
    /\ metadataFile' = Absent
    /\ Goto(s, "remove_documents")
    /\ UNCHANGED <<memory, held, nextUuid, indexFile, documentsFile,
                   frame, faults, last>>

\* Lines 142-144, the documents file; the call returns.
RemoveDocuments(s) ==
    /\ pc[s] = "remove_documents"
    /\ documentsFile' = Absent
    /\ Return(s, <<>>)
    /\ UNCHANGED <<memory, held, nextUuid, indexFile, metadataFile, faults>>

\* search(query, top_k), lines 75-83: the positions and scores the index
\* returns; on an empty index the call returns [] at once.
CallSearch(s, query, top_k) ==
    LET q == NormalizeL2(Encode(query))
    IN  /\ pc[s] = "idle"
        /\ IF Len(index) = 0
           THEN /\ last' = [ok |-> TRUE, encodes |-> 0,
                            before |-> Len(documents), op |-> "search",
                            arg |-> <<query, top_k>>, res |-> <<>>]
                /\ UNCHANGED <<pc, frame>>
           ELSE /\ \E r \in IndexSearch(index, q, Min(top_k, Len(index))) :
                      frame' = [frame EXCEPT ![s] =
                                  [op |-> "search", arg |-> <<query, top_k>>,
                                   before |-> Len(documents), encodes |-> 1,
                                   positions |-> r,
                                   scores |-> IndexScores(index, q, r)]]
                /\ Goto(s, "search_format")
                /\ UNCHANGED last
        /\ UNCHANGED <<memory, held, nextUuid, disk, faults>>

\* Lines 86-95: self.documents[idx] and self.metadata[idx] of each position.
SearchFormat(s) ==
    /\ pc[s] = "search_format"
    /\ IF /\ InRange(frame[s].positions, Len(documents))
          /\ InRange(frame[s].positions, Len(metadata))
       THEN Return(s, FormatResults(frame[s].scores, metadata, documents,
                                    frame[s].positions))
       ELSE Raise(s)
    /\ UNCHANGED <<memory, held, nextUuid, disk, faults>>

\* file_exists and get_stats between the steps of other sessions' calls.
CallFileExists(s, filename) == pc[s] = "idle" /\ FileExists(filename)
CallGetStats(s) == pc[s] = "idle" /\ GetStats

\* The embedder, the index or the file system raises: encode (lines 56,
\* 115), index.add (line 62), opening or writing a file (lines 44-48).
FailPoints ==
    {"add_encode", "add_index", "delete_build", "save_index", "save_index_w",
     "save_metadata", "save_metadata_w", "save_documents", "save_documents_w"}

Fail(s) ==
    /\ pc[s] \in FailPoints
    /\ faults < MaxFaults
    /\ faults' = faults + 1
    /\ heap' = Collect(heap, Range(metadata) \cup ChunkRefs(s))
    /\ Raised(s, IF pc[s] \in {"add_encode", "delete_build"} THEN 1 ELSE frame[s].encodes)
    /\ UNCHANGED <<index, metadata, documents, held, nextUuid, disk>>

\* The process is killed: the store in memory is lost, the files stay.
\* (last records the call that was running, as history.)
Crash ==
    /\ pc[1] # "down"
    /\ faults < MaxFaults
    /\ faults' = faults + 1
    /\ pc' = [s \in Sessions |-> "down"]
    /\ frame' = [s \in Sessions |-> NoFrame]
    /\ index' = <<>>
    /\ metadata' = <<>>
    /\ documents' = <<>>
    /\ heap' = <<>>
    /\ last' = [ok |-> TRUE, encodes |-> 0, before |-> Len(documents), op |-> "killed",
                arg |-> frame[1], res |-> <<>>]
    /\ UNCHANGED <<held, nextUuid, disk>>

\* The next start-up: VectorStore.__init__ on the persist directory.
Startup ==
    /\ pc[1] = "down"
    /\ last.op = "killed"
    /\ IF LoadSucceeds(indexFile, metadataFile, documentsFile)
       THEN /\ index' = LoadIndex(indexFile)
            /\ metadata' = LoadMetadata(indexFile, metadataFile)
            /\ documents' = LoadDocuments(indexFile, documentsFile)
            /\ heap' = LoadHeap(indexFile, metadataFile)
            /\ pc' = [s \in Sessions |-> "idle"]
            /\ last' = [ok |-> TRUE, encodes |-> 0,
                        before |-> 0, op |-> "start", arg |-> last.arg,
                        res |-> <<>>]
       ELSE /\ last' = [ok |-> FALSE, encodes |-> 0,
                        before |-> 0, op |-> "start", arg |-> last.arg,
                        res |-> <<>>]
            /\ UNCHANGED <<memory, pc>>
    /\ UNCHANGED <<held, nextUuid, disk, frame, faults>>

\* One step of session s.
Step(s) ==
    \/ \E filename \in StepFiles, texts \in SeqsUpTo(StepTexts, MaxBatch) \ {<<>>} :
          CallAddDocuments(s, filename, texts)
    \/ AddEncode(s)
    \/ AddIndex(s)
    \/ AddLoopMetadata(s)
    \/ AddLoopDocument(s)
    \/ SaveOpenIndex(s)
    \/ SaveWriteIndex(s)
    \/ SaveOpenMetadata(s)
    \/ SaveWriteMetadata(s)
    \/ SaveOpenDocuments(s)
    \/ SaveWriteDocuments(s)
    \/ \E filename \in StepFiles : CallDeleteFile(s, filename)
    \/ DeleteBuild(s)
    \/ DeleteIndex(s)
    \/ DeleteMetadata(s)
    \/ DeleteDocuments(s)
    \/ CallResetDatabase(s)
    \/ ResetMetadata(s)
    \/ ResetDocuments(s)
    \/ RemoveIndex(s)
    \/ RemoveMetadata(s)
    \/ RemoveDocuments(s)

(***************************************************************************)
(* One session whose calls may raise and whose process may be killed and   *)
(* started again.                                                          *)
(***************************************************************************)
NextSteps ==
    \/ Step(1)
    \/ Fail(1)
    \/ Crash
    \/ Startup

SpecSteps == Init /\ [][NextSteps]_vars

(***************************************************************************)
(* The sessions of one process on the shared store (st.cache_resource):    *)
(* their threads interleave between the steps of the calls.                *)
(***************************************************************************)
Read(s) ==
    \/ \E query \in StepTexts, top_k \in 1..MaxTopK : CallSearch(s, query, top_k)
    \/ SearchFormat(s)
    \/ \E filename \in StepFiles : CallFileExists(s, filename)
    \/ CallGetStats(s)

\* Session 1 changes the store while session 2 reads it.
NextShared ==
    \/ Step(1)
    \/ Read(2)

SpecShared == Init /\ [][NextShared]_vars

(***************************************************************************)
(* One session of app.py: the upload loop of main (lines 81-121), the      *)
(* reset button (lines 63-66) and the search of the query tab (line 146).  *)
(* Every script run calls the store one call after the other.              *)
(***************************************************************************)
MAX_FILE_SIZE_MB == 10
TOP_K_RESULTS == 5

\* uploaded_file.size, in bytes: at the limit and one byte above it.
Sizes == {MAX_FILE_SIZE_MB * 1024 * 1024, MAX_FILE_SIZE_MB * 1024 * 1024 + 1}

\* Line 83: the file is too voluminous.
TooLarge(size) == size > MAX_FILE_SIZE_MB * 1024 * 1024

\* Lines 88-91: delete_file runs when the file exists and the button
\* "Transcribe Anew" of the file was clicked.
UploadDeletes(size, exists, confirm) == ~TooLarge(size) /\ exists /\ confirm

\* Mutant: the file is processed whether it exists or not.
UploadAddsUnchecked(size, exists, confirm) == ~TooLarge(size)

\* Lines 83-94: the loop reaches "Process file" unless it has hit one of
\* the two continue statements.
UploadAdds(size, exists, confirm) == ~TooLarge(size) /\ (~exists \/ confirm)

\* One uploaded file in the loop of lines 82-121.  saved: _save_index of
\* add_documents returns (otherwise it raises and line 120 catches);
\* accepted: the embedding of an empty batch is not rejected.
UploadFile(name, size, texts, confirm, saved, accepted) ==
    LET exists    == FileExistsIn(metadata, heap, name)
        deletes   == UploadDeletes(size, exists, confirm)
        adds      == UploadAdds(size, exists, confirm)
        remaining == RemainingIndices(metadata, heap, name)
        idx1      == IF deletes THEN RebuiltIndex(documents, remaining) ELSE index
        md1       == IF deletes THEN RemainingMetadata(metadata, remaining) ELSE metadata
        docs1     == IF deletes THEN RemainingDocuments(documents, remaining)
                     ELSE documents
        h1        == Collect(heap, Range(md1))
        chunks    == ChunkText(h1, texts, name)
        added     == adds /\ (IF texts = <<>> THEN accepted ELSE TRUE)
        idx2      == IF added THEN IndexAdd(idx1, EncodeBatch(TextsOf(chunks))) ELSE idx1
        md2       == IF added THEN AppendMetadata(md1, chunks) ELSE md1
        docs2     == IF added THEN AppendDocuments(docs1, chunks) ELSE docs1
        h2        == IF added
                     THEN AssignIds(ChunkTextHeap(h1, texts, name), chunks, 1, nextUuid)
                     ELSE h1
    IN  /\ adds => AddFits(chunks)
        /\ ~saved => (added /\ faults < MaxFaults)
        /\ index' = idx2
        /\ metadata' = md2
        /\ documents' = docs2
        /\ heap' = h2
        /\ held' = <<>>
        /\ nextUuid' = IF added THEN nextUuid + Len(chunks) ELSE nextUuid
        /\ faults' = IF saved THEN faults ELSE faults + 1
        /\ IF added /\ saved THEN SaveIndex(idx2, md2, docs2, h2)
           ELSE IF deletes THEN SaveIndex(idx1, md1, docs1, h1)
           ELSE UNCHANGED disk
        /\ last' = [ok |-> saved /\ (adds => added),
                    encodes |-> (IF deletes /\ remaining # <<>> THEN 1 ELSE 0)
                                + (IF adds THEN 1 ELSE 0),
                    before |-> Len(documents), op |-> "upload",
                    arg |-> [name |-> name, size |-> size, chunks |-> chunks,
                             existed |-> exists, confirm |-> confirm],
                    res |-> IF added THEN Len(chunks) ELSE 0]
        /\ UNCHANGED <<pc, frame>>

\* Line 146: search with config.TOP_K_RESULTS; line 130 returns before it on
\* an empty store.
AppSearch(query) ==
    /\ Len(documents) > 0
    /\ Search(query, TOP_K_RESULTS)

NextApp ==
    \/ \E name \in StepFiles, size \in Sizes, texts \in SeqsUpTo(Texts, MaxBatch),
          confirm \in BOOLEAN, saved \in BOOLEAN, accepted \in BOOLEAN :
          UploadFile(name, size, texts, confirm, saved, accepted)
    \/ ResetDatabase
    \/ \E query \in Texts : AppSearch(query)
    \/ GetStats
    \/ Restart

SpecApp == Init /\ [][NextApp]_vars

(***************************************************************************)
(* Properties                                                              *)
(***************************************************************************)
\* The metadata list by value.
MetadataValues(md, h) == [i \in 1..Len(md) |-> h[md[i]]]

\* Which positions of the metadata list hold the same dict object.
Sharing(md) == {<<i, j>> \in (1..Len(md)) \X (1..Len(md)) : md[i] = md[j]}

\* A result list with the metadata dicts by value.
ResultValues(results, h) ==
    [i \in 1..Len(results) |->
        [text |-> results[i].text,
         metadata |-> h[results[i].metadata],
         distance |-> results[i].distance]]

Mutating == {"add_documents", "delete_file", "reset_database"}

\* What a store constructed now on the persist directory would hold.
ReloadedIndex == LoadIndex(indexFile)
ReloadedMetadata == LoadMetadata(indexFile, metadataFile)
ReloadedDocuments == LoadDocuments(indexFile, documentsFile)
ReloadedHeap == LoadHeap(indexFile, metadataFile)

\* C1 (alignment invariant): after every call the index holds as many
\* vectors as there are metadata entries and stored chunk texts.
C1_Alignment ==
    /\ Len(index) = Len(metadata)
    /\ Len(metadata) = Len(documents)

\* C1 witness: a second add_documents call has filled the catalog.
C1_Witness ==
    /\ last.op = "add_documents"
    /\ last.before > 0
    /\ Len(index) = MaxChunks
    /\ Len(documents) = MaxChunks

\* C2 (co-indexing): at every position the vector is the normalized
\* embedding of the text and the metadata is the one supplied with the text;
\* add_documents appends the batch in input order and delete_file filters
\* index, metadata and documents by the same positions.
C2_CoIndexed ==
    /\ Len(index) = Len(documents)
    /\ Len(metadata) = Len(documents)
    /\ \A i \in 1..Len(documents) :
          /\ index[i] = NormalizeL2(Encode(documents[i]))
          /\ heap[metadata[i]].chunk_hash = Md5(documents[i])

C2_AddAppends ==
    last'.op = "add_documents" /\ last'.ok =>
        LET chunks == last'.arg
            n == Len(documents)
        IN  /\ Len(index') = n + Len(chunks)
            /\ SubSeq(index', 1, n) = index
            /\ SubSeq(metadata', 1, n) = metadata
            /\ SubSeq(documents', 1, n) = documents
            /\ \A i \in 1..Len(chunks) :
                  /\ index'[n + i] = NormalizeL2(Encode(chunks[i].text))
                  /\ metadata'[n + i] = chunks[i].meta
                  /\ documents'[n + i] = chunks[i].text

C2_DeleteFilters ==
    last'.op = "delete_file" =>
        \E keep \in SUBSET (1..Len(documents)) :
            LET positions == Positions(Len(documents), keep)
            IN  /\ index' = Pick(index, positions)
                /\ metadata' = Pick(metadata, positions)
                /\ documents' = Pick(documents, positions)

C2_CoIndexing ==
    /\ []C2_CoIndexed
    /\ [][C2_AddAppends]_vars
    /\ [][C2_DeleteFilters]_vars

\* C2 witness: delete_file has removed the chunk in front of two chunks of
\* one batch, which have moved to positions 1 and 2.
C2_Witness ==
    /\ last.op = "delete_file"
    /\ last.res = 1
    /\ Len(index) = 2
    /\ heap[metadata[1]].id = 2
    /\ heap[metadata[2]].id = 3
    /\ documents[1] # documents[2]

\* C3 (delete completeness): once delete_file(f) has returned, file_exists(f)
\* is false and no search result carries the filename f, until chunks of f
\* are added again.
C3_DeletedIsGone ==
    last.op = "delete_file" => ~FileExistsIn(metadata, heap, last.arg)

C3_StaysGone ==
    \A f \in Files :
        (/\ ~FileExistsIn(metadata, heap, f)
         /\ ~(/\ last'.op = "add_documents"
              /\ \E i \in 1..Len(last'.arg) : heap'[last'.arg[i].meta].filename = f))
        => ~FileExistsIn(metadata', heap', f)

C3_ReadsAgree ==
    /\ last.op = "file_exists" => (last.res <=> FileExistsIn(metadata, heap, last.arg))
    /\ last.op = "search" =>
          \A i \in 1..Len(last.res) :
              FileExistsIn(metadata, heap, heap[last.res[i].metadata].filename)

C3_DeleteCompleteness ==
    /\ []C3_DeletedIsGone
    /\ [][C3_StaysGone]_vars
    /\ []C3_ReadsAgree

\* C3 witness: delete_file has removed the two chunks of a file, added by
\* two calls, and a chunk of another file stays.
C3_Witness ==
    /\ last.op = "delete_file"
    /\ last.res = 2
    /\ Len(metadata) = 1
    /\ heap[metadata[1]].id = 2

\* C4 (delete preserves others): delete_file(f) removes exactly the entries
\* of f; the entries of other files stay, text and metadata (id included)
\* unchanged, in the same relative order.
C4_Preserved ==
    last'.op = "delete_file" =>
        LET f == last'.arg
            others == Positions(Len(metadata),
                        {i \in 1..Len(metadata) : heap[metadata[i]].filename # f})
        IN  /\ metadata' = Pick(metadata, others)
            /\ documents' = Pick(documents, others)
            /\ MetadataValues(metadata', heap')
                  = MetadataValues(Pick(metadata, others), heap)

C4_DeletePreservesOthers == [][C4_Preserved]_vars

\* C4 witness: delete_file removed a file's chunks and two chunks stay.
C4_Witness ==
    /\ last.op = "delete_file"
    /\ last.res >= 1
    /\ Len(metadata) >= 2

\* C5 (idempotent reload): after every completed call a store constructed
\* on the same directory has the same ordered catalog and vectors as the
\* store in memory, and search gives the same results on both.
C5_IdempotentReload ==
    /\ LoadSucceeds(indexFile, metadataFile, documentsFile)
    /\ ReloadedIndex = index
    /\ ReloadedDocuments = documents
    /\ MetadataValues(ReloadedMetadata, ReloadedHeap) = MetadataValues(metadata, heap)
    /\ Sharing(ReloadedMetadata) = Sharing(metadata)
    /\ \A query \in Texts, top_k \in 1..MaxTopK :
          {ResultValues(r, ReloadedHeap) :
              r \in SearchResults(ReloadedIndex, ReloadedMetadata, ReloadedDocuments,
                                  query, top_k)}
          = {ResultValues(r, heap) :
              r \in SearchResults(index, metadata, documents, query, top_k)}

\* C5 witness: the snapshot written by a delete_file that left chunks.
C5_Witness ==
    /\ last.op = "delete_file"
    /\ last.res >= 1
    /\ indexFile.state = "ok"
    /\ Len(indexFile.data) >= 1
    /\ Len(documentsFile.data) >= 1

\* The two states of the store: Empty holds zero chunks, Populated at
\* least one.
StoreEmpty(idx, md, docs) == Len(idx) = 0 /\ Len(md) = 0 /\ Len(docs) = 0
StorePopulated(idx, md, docs) == Len(idx) >= 1 /\ Len(md) >= 1 /\ Len(docs) >= 1

\* delete_file, reset_database and the persisted contents in the state
\* machine of the store.
C9_OtherTransitions ==
    /\ (last.op = "delete_file" /\ last.before >= 1 /\ last.res = last.before)
          => StoreEmpty(index, metadata, documents)
    /\ last.op = "reset_database" => StoreEmpty(index, metadata, documents)
    /\ last.op \in Mutating =>
          /\ LoadSucceeds(indexFile, metadataFile, documentsFile)
          /\ StoreEmpty(index, metadata, documents)
                <=> StoreEmpty(ReloadedIndex, ReloadedMetadata, ReloadedDocuments)
          /\ StorePopulated(index, metadata, documents)
                <=> StorePopulated(ReloadedIndex, ReloadedMetadata, ReloadedDocuments)

C10_Reset ==
    last.op = "reset_database" =>
        /\ Stats(metadata, documents, heap).total_chunks = 0
        /\ Stats(metadata, documents, heap).unique_files = 0
        /\ Len(index) = 0
        /\ indexFile.state = "absent"
        /\ metadataFile.state = "absent"
        /\ documentsFile.state = "absent"
        /\ LoadSucceeds(indexFile, metadataFile, documentsFile)
        /\ StoreEmpty(ReloadedIndex, ReloadedMetadata, ReloadedDocuments)

\* C10 witness: reset_database on a store of two or more chunks.
C10_Witness ==
    /\ last.op = "reset_database"
    /\ last.before >= 2

\* C6 (crash atomicity of the snapshot): a start-up after the process was
\* killed inside a mutating call succeeds and loads either the store as the
\* call found it or the store the call was persisting, with index, metadata
\* and documents of equal length.
C6_CrashAtomicity ==
    (last.op = "start" /\ last.arg.op \in Mutating /\ pc[1] \in {"idle", "down"}) =>
        /\ last.ok
        /\ View(index, metadata, documents, heap) \in {last.arg.pre, last.arg.post}
        /\ Len(index) = Len(metadata)
        /\ Len(metadata) = Len(documents)

\* C7 (all-or-nothing add): when add_documents raises, the store in memory
\* and the three files are as the call found them.
C7_FailedAddChangesNothing ==
    (pc[1] # "idle" /\ pc'[1] = "idle" /\ last'.op = "add_documents" /\ ~last'.ok) =>
        /\ View(index', metadata', documents', heap') = frame[1].pre
        /\ disk' = frame[1].files

C7_AllOrNothingAdd == [][C7_FailedAddChangesNothing]_vars

\* C8 (consistent reads under concurrency): every search on the shared
\* store returns, and each of its results is a catalog entry together with
\* the score of that entry's own vector.
C8_ConsistentReads ==
    last.op = "search" =>
        /\ last.ok
        /\ \A i \in 1..Len(last.res) :
              /\ last.res[i].distance
                    = Unit - Score(NormalizeL2(Encode(last.res[i].text)),
                                   NormalizeL2(Encode(last.arg[1])))
              /\ last.res[i].metadata \in DOMAIN heap =>
                    heap[last.res[i].metadata].chunk_hash = Md5(last.res[i].text)

\* The number of catalog entries of a filename.
ChunksOf(md, h, filename) == Cardinality({i \in 1..Len(md) : h[md[i]].filename = filename})

\* total_chunks follows the calls: add_documents adds the length of its
\* batch, delete_file takes away the chunks of its file, the reads change
\* nothing.
C11_CountsFollowCalls ==
    /\ (last'.op = "add_documents" /\ last'.ok) =>
          Stats(metadata', documents', heap').total_chunks
              = Stats(metadata, documents, heap).total_chunks + Len(last'.arg)
    /\ last'.op = "delete_file" =>
          Stats(metadata', documents', heap').total_chunks
              = Stats(metadata, documents, heap).total_chunks
                    - ChunksOf(metadata, heap, last'.arg)
    /\ last'.op \in {"search", "file_exists", "get_stats"} =>
          Stats(metadata', documents', heap') = Stats(metadata, documents, heap)

\* get_stats returns the projection of the catalog over the filenames of
\* the set named.
StatsProject(names) ==
    LET present == {f \in names : FileExistsIn(metadata, heap, f)}
        stats   == Stats(metadata, documents, heap)
    IN  /\ stats.total_chunks = Len(metadata)
        /\ stats.unique_files = Cardinality(present)
        /\ \A f \in names : f \in stats.files <=> FileExistsIn(metadata, heap, f)
        /\ last.op = "get_stats" => last.res = stats

C11_ProjectsEveryFilename == StatsProject(Files)
C11_ProjectsNonEmptyFilenames == StatsProject(Files \ {""})

\* C11 as stated (stats projection): total_chunks counts the chunks added
\* and not deleted since, unique_files counts the filenames that have a
\* chunk in the catalog, and a filename is in files exactly when file_exists
\* of it is true.
C11_StatsProjectionOfAll ==
    /\ []C11_ProjectsEveryFilename
    /\ [][C11_CountsFollowCalls]_vars

\* C11 (stats projection, amended): the same for the filenames other than
\* the empty string, which get_stats discards; the chunks of the empty
\* filename count in total_chunks only.
C11_StatsProjection ==
    /\ []C11_ProjectsNonEmptyFilenames
    /\ [][C11_CountsFollowCalls]_vars

\* C11 witness: get_stats on a catalog that holds chunks of a named file and
\* a chunk of the empty filename, after another chunk was removed.
C11_Witness ==
    /\ last.op = "get_stats"
    /\ last.res.total_chunks = 2
    /\ last.res.unique_files = 1
    /\ FileExistsIn(metadata, heap, "")
    /\ nextUuid = MaxUuid + 1

\* The last search returned the min(top_k, n) best positions of the index,
\* each once, by non-increasing score, with the text, the metadata and the
\* distance 1 - score of each position; when tiesAscending, positions of
\* equal score come in ascending order and the lower positions are chosen.
Ranked(tiesAscending) ==
    last.op = "search" =>
        LET q == NormalizeL2(Encode(last.arg[1]))
            k == Min(last.arg[2], Len(index))
            before(i, j) ==
                \/ Score(index[i], q) > Score(index[j], q)
                \/ /\ Score(index[i], q) = Score(index[j], q)
                   /\ (tiesAscending => i < j)
        IN  /\ last.ok
            /\ Len(last.res) = k
            /\ \E r \in [1..k -> 1..Len(index)] :
                  /\ \A a, b \in 1..k : a < b => r[a] # r[b] /\ before(r[a], r[b])
                  /\ \A p \in (1..Len(index)) \ Range(r) :
                        \A a \in 1..k : before(r[a], p)
                  /\ \A i \in 1..k :
                        last.res[i] = [text |-> documents[r[i]],
                                       metadata |-> metadata[r[i]],
                                       distance |-> Unit - Score(index[r[i]], q)]

\* C12 (ranking): search returns min(top_k, n) results for distinct
\* positions, by non-increasing inner product of the normalized vectors,
\* ties by ascending position; distance is 1 - score, text and metadata are
\* those of the position.
C12_Ranking == Ranked(TRUE)

\* The ranking that search has whatever order the index gives to equal
\* scores.
RankingByScore == Ranked(FALSE)

\* C13 (empty-store search): on a store of zero chunks every search returns
\* the empty list, without raising and without a call of the embedder.
C13_EmptyStoreSearch ==
    /\ (last.op = "search" /\ last.before = 0) =>
          /\ last.ok
          /\ last.res = <<>>
          /\ last.encodes = 0
    /\ Len(documents) = 0 =>
          \A query \in Texts, top_k \in 1..MaxTopK :
              /\ SearchResults(index, metadata, documents, query, top_k) = {<<>>}
              /\ SearchEncodes(index) = 0

\* C13 witness: a search on the store that delete_file emptied and that was
\* then loaded again from the snapshot of the empty store.
C13_Witness ==
    /\ last.op = "search"
    /\ last.before = 0
    /\ indexFile.state = "ok"
    /\ indexFile.data = <<>>
    /\ heap = <<>>
    /\ held = <<>>
    /\ nextUuid > 1

\* The ids of the catalog entries, by position.
Ids(md, h) == [i \in 1..Len(md) |-> h[md[i]].id]

\* Every catalog entry has an id and no two entries have the same id.
C14_UniqueIds ==
    \A i, j \in 1..Len(metadata) :
        /\ Ids(metadata, heap)[i] # 0
        /\ i # j => Ids(metadata, heap)[i] # Ids(metadata, heap)[j]

\* The entries keep their ids: add_documents and a reload leave the ids of
\* the entries there were as they are, delete_file those of the entries of
\* other files; the ids add_documents gives are not ids of entries there
\* were.
C14_IdsStay ==
    /\ last'.op \in {"add_documents", "init", "search", "file_exists", "get_stats"} =>
          /\ Len(metadata') >= Len(metadata)
          /\ SubSeq(Ids(metadata', heap'), 1, Len(metadata)) = Ids(metadata, heap)
          /\ \A i \in (Len(metadata) + 1)..Len(metadata') :
                Ids(metadata', heap')[i] \notin Range(Ids(metadata, heap))
    /\ last'.op = "delete_file" =>
          Ids(metadata', heap')
              = Pick(Ids(metadata, heap),
                     Positions(Len(metadata),
                               {i \in 1..Len(metadata) :
                                   heap[metadata[i]].filename # last'.arg}))

\* C14 (unique stable ids): add_documents gives each chunk of the batch a
\* fresh id, no two catalog entries have the same id, and an entry keeps
\* its id until delete_file or reset_database removes it, also when the
\* same chunk objects are added again.
C14_UniqueStableIds ==
    /\ []C14_UniqueIds
    /\ [][C14_IdsStay]_vars

Reading == {"search", "file_exists", "get_stats"}

\* C15 (read-only operations): search, file_exists and get_stats leave the
\* index, the metadata list with its dicts, the documents list and the three
\* files as they are.
C15_ReadsChangeNothing ==
    last'.op \in Reading =>
        /\ index' = index
        /\ metadata' = metadata
        /\ MetadataValues(metadata', heap') = MetadataValues(metadata, heap)
        /\ documents' = documents
        /\ indexFile' = indexFile
        /\ metadataFile' = metadataFile
        /\ documentsFile' = documentsFile

C15_ReadOnly == [][C15_ReadsChangeNothing]_vars

\* C15 witness: a search that returned two results from a full catalog
\* that holds a chunk of the empty filename.
C15_Witness ==
    /\ last.op = "search"
    /\ Len(last.res) = 2
    /\ Len(metadata) = MaxChunks
    /\ FileExistsIn(metadata, heap, "")
    /\ documentsFile.state = "ok"

\* C16 (start-up without a snapshot): a start-up that finds no index file
\* succeeds with an empty store, whatever the other two files are; one that
\* finds the index file loads index, metadata and documents from the three
\* files, or none of them.
C16_StartupLoads ==
    (last.op = "start" /\ pc[1] \in {"idle", "down"}) =>
        /\ indexFile.state = "absent" =>
              /\ last.ok
              /\ index = <<>>
              /\ metadata = <<>>
              /\ documents = <<>>
        /\ (indexFile.state # "absent" /\ last.ok) =>
              /\ index = indexFile.data
              /\ documents = documentsFile.data
              /\ MetadataValues(metadata, heap)
                    = [i \in 1..Len(metadataFile.data) |-> metadataFile.data[i].dict]
        /\ ~last.ok =>
              /\ indexFile.state # "absent"
              /\ "ok" \notin {indexFile.state} \cap {metadataFile.state}
                                                 \cap {documentsFile.state}
              /\ pc[1] = "down"

\* C16 witness: the start-up after a reset_database that was killed when it
\* had removed the index file only.
C16_Witness ==
    /\ last.op = "start"
    /\ last.arg.op = "reset_database"
    /\ pc[1] = "idle"
    /\ indexFile.state = "absent"
    /\ metadataFile.state = "ok"
    /\ Len(metadataFile.data) >= 1
    /\ documentsFile.state = "ok"

\* The entries of a filename stand next to each other, carry the chunk_id
\* values 0, 1, ... in order and the ids that one call drew.
FromOneCall(md, h, filename) ==
    LET at == Positions(Len(md), {i \in 1..Len(md) : h[md[i]].filename = filename})
    IN  \A k \in 1..Len(at) :
            /\ h[md[at[k]]].chunk_id = k - 1
            /\ at[k] = at[1] + k - 1
            /\ h[md[at[k]]].id = h[md[at[1]]].id + k - 1

C17_OneCallPerFile == \A f \in Files : FromOneCall(metadata, heap, f)

\* A file is added to the chunks of its name only after delete_file has
\* removed them on confirmation, and a file above the size limit is not
\* added.
C17_UploadPolicy ==
    last'.op = "upload" =>
        LET file == last'.arg
        IN  /\ TooLarge(file.size) =>
                  View(index', metadata', documents', heap')
                      = View(index, metadata, documents, heap)
            /\ (file.existed /\ ~file.confirm) =>
                  View(index', metadata', documents', heap')
                      = View(index, metadata, documents, heap)
            /\ ChunksOf(metadata', heap', file.name) # ChunksOf(metadata, heap, file.name) =>
                  /\ ~TooLarge(file.size)
                  /\ file.existed => file.confirm
            /\ ChunksOf(metadata', heap', file.name)
                  \in {ChunksOf(metadata, heap, file.name), 0, Len(file.chunks)}

\* C17 (duplicate-file policy of the upload flow): in one session of the
\* application a file whose name is in the store is added again only after
\* delete_file on confirmation, a file above MAX_FILE_SIZE_MB is never
\* added, and so the entries of one filename always come from one
\* add_documents call, with chunk_id 0..n-1 in order.
C17_DuplicateFilePolicy ==
    /\ []C17_OneCallPerFile
    /\ [][C17_UploadPolicy]_vars

\* C17 witness: a file in the store was transcribed anew on confirmation,
\* in two chunks.
C17_Witness ==
    /\ last.op = "upload"
    /\ last.ok
    /\ last.arg.existed
    /\ last.arg.confirm
    /\ last.before >= 1
    /\ last.res = 2
    /\ Len(metadata) = 2
    /\ heap[metadata[2]].chunk_id = 1

\* C18 (delete_file of an unknown file): delete_file of a filename that has
\* no chunk in the catalog returns without a call of the embedder and
\* leaves the index, the metadata, the documents and the three files as
\* they are.
C18_NothingToDelete ==
    (last'.op = "delete_file" /\ ~FileExistsIn(metadata, heap, last'.arg)) =>
        /\ last'.ok
        /\ last'.res = 0
        /\ last'.encodes = 0
        /\ index' = index
        /\ metadata' = metadata
        /\ MetadataValues(metadata', heap') = MetadataValues(metadata, heap)
        /\ documents' = documents
        /\ indexFile' = indexFile
        /\ metadataFile' = metadataFile
        /\ documentsFile' = documentsFile

C18_DeleteUnknownFile == [][C18_NothingToDelete]_vars

\* C18 witness: delete_file of a file that is not in a store of two chunks.
C18_Witness ==
    /\ last.op = "delete_file"
    /\ last.res = 0
    /\ last.before = 2
    /\ last.arg = "B"
    /\ Len(metadata) = 2

\* While delete_file builds the new index, the store and the files are as
\* the call found them.
C19_ReplacedAfterBuild ==
    pc[1] = "delete_build" =>
        /\ View(index, metadata, documents, heap) = frame[1].pre
        /\ disk = frame[1].files

\* When the embedding of the remaining texts raises, delete_file leaves the
\* store and the files as it found them, the file's chunks included.
C19_FailedBuildChangesNothing ==
    (pc[1] = "delete_build" /\ pc'[1] = "idle" /\ ~last'.ok /\ last'.encodes = 1) =>
        /\ last'.op = "delete_file"
        /\ View(index', metadata', documents', heap') = frame[1].pre
        /\ disk' = frame[1].files
        /\ FileExistsIn(metadata', heap', last'.arg)
        /\ Len(index') = Len(index)
        /\ Len(metadata') = Len(metadata)
        /\ Len(documents') = Len(documents)

\* C19 (failed re-embedding in delete_file): if the embedding of the
\* retained chunks fails, index, metadata, documents and the snapshot are as
\* before the call; they are replaced only once the new index is built.
C19_DeleteBuildFailure ==
    /\ []C19_ReplacedAfterBuild
    /\ [][C19_FailedBuildChangesNothing]_vars

\* C19 witness: delete_file has raised in a store of two files, after the
\* call of the embedder.
C19_Witness ==
    /\ last.op = "delete_file"
    /\ ~last.ok
    /\ last.encodes = 1
    /\ pc[1] = "idle"
    /\ Len(metadata) >= 2
    /\ FileExistsIn(metadata, heap, last.arg)

====
